---------------------------- MODULE Spec2Model ----------------------------
(***************************************************************************)
(* Discord / Stoat bidirectional bridge (src/bridge.py).                   *)
(*                                                                         *)
(* The model follows the asyncio structure of the program: every handler   *)
(* runs atomically from one suspension point (await of network I/O) to the *)
(* next, and handlers of both platforms interleave at those points.        *)
(* Each action below is one such atomic segment.                           *)
(***************************************************************************)
EXTENDS Integers, Sequences, FiniteSets, TLC

(***************************************************************************)
(* Bounds of the model.                                                    *)
(***************************************************************************)
\* capacity of the correlation cache (500 in the program, scaled down)
MSG_CACHE_SIZE == 2
\* handler invocations that may be suspended at the same time
MaxTasks == 2
\* redelivered delete events (SpecReplay only)
MaxReplay == 1
\* _cache_pair calls of the stand-alone cache specification (SpecCache)
MaxCalls == 3

\* messages created on each platform
MaxId == 2
DIds == 1 .. MaxId
SIds == 1 .. MaxId
\* "no id": Python's None for an id
NoId == 0

(***************************************************************************)
(* Configuration: the channel pairs.  startup holds what the module reads  *)
(* from the environment and what it builds from it at import:              *)
(*   phase    "env" before the module body runs, "loaded" after it,        *)
(*            "running" once main() has started the clients, "rejected"    *)
(*            after a RuntimeError (or the ValueError of int())            *)
(*   tokens   both bot tokens are set                                      *)
(*   numeric  every item of DISCORD_CHANNEL_IDS is an integer              *)
(***************************************************************************)
VARIABLE startup

DISCORD_CHANNEL_IDS == startup.discord_ids
STOAT_CHANNEL_IDS == startup.stoat_ids
PAIR_COUNT == Len(DISCORD_CHANNEL_IDS)
DISCORD_TO_STOAT == startup.DISCORD_TO_STOAT
STOAT_TO_DISCORD == startup.STOAT_TO_DISCORD

\* zip(DISCORD_CHANNEL_IDS, STOAT_CHANNEL_IDS): as long as the shorter list
ZipLen(dl, sl) == IF Len(dl) < Len(sl) THEN Len(dl) ELSE Len(sl)

\* {d: s for d, s in zip(...)}: the last pair of a repeated key wins
ZipD2S(dl, sl) ==
    [ d \in { dl[i] : i \in 1 .. ZipLen(dl, sl) } |->
        sl[CHOOSE i \in 1 .. ZipLen(dl, sl) :
            /\ dl[i] = d
            /\ \A j \in (i + 1) .. ZipLen(dl, sl) : dl[j] # d] ]

\* {s: d for d, s in zip(...)}
ZipS2D(dl, sl) ==
    [ s \in { sl[i] : i \in 1 .. ZipLen(dl, sl) } |->
        dl[CHOOSE i \in 1 .. ZipLen(dl, sl) :
            /\ sl[i] = s
            /\ \A j \in (i + 1) .. ZipLen(dl, sl) : sl[j] # s] ]

\* the configuration the bridge runs with in every specification but
\* SpecStartup: one channel pair
RunningConfig ==
    [ phase |-> "running", tokens |-> TRUE, numeric |-> TRUE,
      discord_ids |-> << "dc1" >>, stoat_ids |-> << "sc1" >>,
      DISCORD_TO_STOAT |-> ZipD2S(<< "dc1" >>, << "sc1" >>),
      STOAT_TO_DISCORD |-> ZipS2D(<< "dc1" >>, << "sc1" >>) ]

\* channels the bot can see: the bridged ones and one that is not bridged
DChannels == DOMAIN DISCORD_TO_STOAT \cup { "dcX" }
SChannels == DOMAIN STOAT_TO_DISCORD \cup { "scX" }

Users == { "u1", "u2" }
\* the account of the bridge itself: self.me on Stoat, self.user and the
\* webhook user on Discord
Bridge == "bridge"
Authors == Users \cup { Bridge }

(***************************************************************************)
(* Message text.  A text is a sequence of tokens:                          *)
(*   "M"  a mention / custom emoji token of the source platform            *)
(*   "n"  the text a token resolves to ("@name", "#channel", ":emoji:")    *)
(*   "x"  ordinary text          "sp" white space        "nl" line break   *)
(*   "Q"  a synthesized quote line "-# (reply) **author**: *snippet*"      *)
(*   "U"  an attachment URL                                                *)
(***************************************************************************)
Contents == { << >>, << "sp" >>, << "x" >>, << "M" >> }

\* clean_discord_content / clean_stoat_content: every token is replaced by its
\* resolved text (never by the empty string), everything else is kept
CleanContent(c) == [ i \in 1 .. Len(c) |-> IF c[i] = "M" THEN "n" ELSE c[i] ]

\* not content.strip()
IsBlank(c) == \A i \in 1 .. Len(c) : c[i] \in { "sp", "nl" }

\* content[:2000] of both sends.  "L" is ordinary text of exactly that many
\* characters, "Q" a quote line, "U1", "U2" the URLs of attachments; a token
\* that does not fit whole is left as the fragment "cut".
CONTENT_MAX == 2000

TokenLen(tok) ==
    CASE tok = "L" -> CONTENT_MAX
      [] tok = "Q" -> 12
      [] tok \in { "U", "U1", "U2" } -> 20
      [] OTHER -> 1

RECURSIVE Truncate(_, _)
Truncate(c, n) ==
    IF c = << >> THEN << >>
    ELSE IF TokenLen(Head(c)) <= n
    THEN << Head(c) >> \o Truncate(Tail(c), n - TokenLen(Head(c)))
    ELSE IF n > 0 THEN << "cut" >>
    ELSE << >>

\* content[:2000] if content.strip() else discord.utils.MISSING
SentContent(c) == IF IsBlank(c) THEN << >> ELSE Truncate(c, CONTENT_MAX)

\* attachments of a message: none, or one
\*   "ok"    downloaded (Stoat) / has a URL (Discord)
\*   "fail"  fetch_bytes returned None
\*   "nourl" the asset has no URL
AttKinds == { "ok", "fail", "nourl" }
AttLists == { << >> } \cup { << k >> : k \in AttKinds }

(***************************************************************************)
(* Attachments of a Stoat message and their download (fetch_bytes).  An    *)
(* attachment is known by the token of its URL ("" when the asset has no   *)
(* URL) and by what the download of that URL meets:                        *)
(*   err     "connect" session.get raised, "read" resp.read raised         *)
(*   status  the HTTP status                                               *)
(*   cl      the Content-Length header: absent, the empty string, a        *)
(*           number, or text that int() rejects                            *)
(*   size    the length of the body                                        *)
(***************************************************************************)
MAX_FILE_SIZE == 25 * 1024 * 1024

\* fetch_bytes returned None
NoData == -1

CLAbsent == [ kind |-> "absent", n |-> 0 ]
CLEmpty == [ kind |-> "empty", n |-> 0 ]
CLBad == [ kind |-> "bad", n |-> 0 ]
CLNum(n) == [ kind |-> "num", n |-> n ]

Download(url, err, status, cl, size) ==
    [ url |-> url, err |-> err, status |-> status, cl |-> cl, size |-> size ]

\* fetch_bytes: data is the length of the bytes returned (NoData for None),
\* read tells whether resp.read() was called
FetchBytesStrict(att) ==
    IF att.err = "connect" \/ att.status # 200 \/ att.cl.kind = "bad"
    THEN [ data |-> NoData, read |-> FALSE ]
    ELSE IF att.cl.kind = "num" /\ att.cl.n >= MAX_FILE_SIZE
    THEN [ data |-> NoData, read |-> FALSE ]
    ELSE IF att.err = "read" \/ att.size >= MAX_FILE_SIZE
    THEN [ data |-> NoData, read |-> TRUE ]
    ELSE [ data |-> att.size, read |-> TRUE ]
FetchBytes(att) ==
    IF att.err = "connect" \/ att.status # 200 \/ att.cl.kind = "bad"
    THEN [ data |-> NoData, read |-> FALSE ]
    ELSE IF att.cl.kind = "num" /\ att.cl.n > MAX_FILE_SIZE
    THEN [ data |-> NoData, read |-> FALSE ]
    ELSE IF att.err = "read" \/ att.size > MAX_FILE_SIZE
    THEN [ data |-> NoData, read |-> TRUE ]
    ELSE [ data |-> att.size, read |-> TRUE ]

\* what the attachment loop of on_message_create gets for one attachment:
\* no fetch when the asset has no URL
Fetched(att) ==
    IF att.url = "" THEN [ data |-> NoData, read |-> FALSE ] ELSE FetchBytes(att)

AttKind(att) ==
    IF att.url = "" THEN "nourl"
    ELSE IF Fetched(att).data # NoData THEN "ok"
    ELSE "fail"

\* one attachment of each kind
AttOf(kind) ==
    CASE kind = "ok" -> Download("U1", "none", 200, CLAbsent, 1)
      [] kind = "fail" -> Download("U1", "none", 404, CLAbsent, 0)
      [] kind = "nourl" -> Download("", "none", 200, CLAbsent, 0)
StoatAttLists == { << >> } \cup { << AttOf(k) >> : k \in AttKinds }

(***************************************************************************)
(* The quote line of a reply.  A fetched reply target is known by the      *)
(* lengths of its author's display name and of its content; the quote line *)
(* by the lengths of the two parts it shows.                               *)
(***************************************************************************)
\* display_name[:50] and content[:80]
QUOTE_AUTHOR_MAX == 50
QUOTE_SNIPPET_MAX == 80

Min(a, b) == IF a < b THEN a ELSE b

\* the reply target could not be fetched
NoMsg == [ found |-> FALSE, author |-> 0, snippet |-> 0 ]
\* a short reply target
ShortMsg == [ found |-> TRUE, author |-> 1, snippet |-> 1 ]
\* reply targets up to, at and beyond the two limits
RefMsgs ==
    [ found : { TRUE },
      author : { 1, QUOTE_AUTHOR_MAX, QUOTE_AUTHOR_MAX + 1 },
      snippet : { 0, QUOTE_SNIPPET_MAX, QUOTE_SNIPPET_MAX + 1 } ]

NoQuote == [ author |-> 0, snippet |-> 0 ]
QuoteLineUncut(msg) == [ author |-> msg.author, snippet |-> msg.snippet ]
QuoteLine(msg) ==
    [ author |-> Min(msg.author, QUOTE_AUTHOR_MAX),
      snippet |-> Min(msg.snippet, QUOTE_SNIPPET_MAX) ]

(***************************************************************************)
(* The correlation cache: two OrderedDicts, oldest entry first, each entry *)
(* << key, value >>.                                                       *)
(***************************************************************************)
CacheKeys(cache) == { cache[i][1] : i \in 1 .. Len(cache) }

\* OrderedDict.get(key): the value, or NoId
CacheGetOldest(cache, key) == IF cache = << >> THEN NoId ELSE cache[1][2]
CacheGet(cache, key) ==
    IF key \in CacheKeys(cache)
    THEN cache[CHOOSE i \in 1 .. Len(cache) : cache[i][1] = key][2]
    ELSE NoId

\* what OrderedDict.get(key) does to the order of the cache
AfterGetRefresh(cache, key) ==
    IF key \in CacheKeys(cache)
    THEN Append(SelectSeq(cache, LAMBDA e : e[1] # key), << key, CacheGet(cache, key) >>)
    ELSE cache
AfterGet(cache, key) == cache

\* if key in cache: cache.move_to_end(key);  cache[key] = val
CachePut(cache, key, val) ==
    Append(SelectSeq(cache, LAMBDA e : e[1] # key), << key, val >>)

\* if len(cache) > MSG_CACHE_SIZE: cache.popitem(last=False)
CacheTrimNewest(cache) ==
    IF Len(cache) > MSG_CACHE_SIZE THEN SubSeq(cache, 1, Len(cache) - 1) ELSE cache
CacheTrim(cache) ==
    IF Len(cache) > MSG_CACHE_SIZE THEN Tail(cache) ELSE cache

CacheInsert(cache, key, val) == CacheTrim(CachePut(cache, key, val))

VARIABLES
    \* ---- program state (module globals of bridge.py) ----
    d2s,                  \* _d2s: discord msg id -> stoat msg id
    s2d,                  \* _s2d: stoat msg id -> discord msg id
    webhook_discord_ids,  \* _webhook_discord_ids
    discord_deleting,     \* _discord_deleting
    stoat_deleting,       \* _stoat_deleting
    notified_users,       \* _notified_users: platform -> list of user ids
    notified_file,        \* contents of notified_users.json
    discord_webhooks,     \* Discord channels whose webhook is ready
    stoat_channels,       \* Stoat channels whose handle is ready
    http_session,         \* StoatBot._http_session is set
    tasks,                \* suspended handler invocations
    \* ---- the two platforms ----
    plat,                 \* messages alive, their channel and author, events in flight
    \* ---- history ----
    hist                  \* what has happened so far (read by the properties only)

vars == << startup, d2s, s2d, webhook_discord_ids, discord_deleting, stoat_deleting,
           notified_users, notified_file, discord_webhooks, stoat_channels, http_session, tasks,
           plat, hist >>


Platforms == { "discord", "stoat" }

(***************************************************************************)
(* Suspended handler invocations.  h is the handler, pc the await it is    *)
(* suspended in, id the message of the event, ch the channel it resolved,  *)
(* peer the mirrored message it acts on, k the number of the event among   *)
(* the delete events of that message.                                      *)
(*   d_msg  DiscordBot.on_message          pc: clean, send                 *)
(*   s_msg  StoatBot.on_message_create     pc: clean, send                 *)
(*   d_del  DiscordBot.on_raw_message_delete  pc: del                      *)
(*   s_del  StoatBot.on_message_delete     pc: wdel, fetchch, udel         *)
(* files is discord_files of on_message_create: the lengths of the open    *)
(* buffers the handler holds.                                              *)
(***************************************************************************)
Task(h, pc, id, ch, peer, k) ==
    [ h |-> h, pc |-> pc, id |-> id, ch |-> ch, peer |-> peer, k |-> k,
      files |-> << >> ]

CanSpawn == Cardinality(tasks) < MaxTasks

(***************************************************************************)
(* First-time user notification.                                           *)
(***************************************************************************)
SeqElems(q) == { q[i] : i \in 1 .. Len(q) }

\* _is_notified
IsNotifiedNever(platform, uid) == FALSE
IsNotified(platform, uid) == uid \in SeqElems(notified_users[platform])

\* _mark_notified: the ledger afterwards
MarkNotified(ledger, platform, uid) ==
    IF uid \notin SeqElems(ledger[platform])
    THEN [ ledger EXCEPT ![platform] = Append(@, uid) ]
    ELSE ledger

\* the first-time block of both message handlers: check, mark, save, and
\* asyncio.create_task of the welcome DM, with no await in between
FirstTimeDM(platform, uid, saveOk, h0) ==
    IF ~IsNotified(platform, uid)
    THEN /\ notified_users' = MarkNotified(notified_users, platform, uid)
         /\ notified_file' =
                IF notified_users' = notified_users \/ ~saveOk
                THEN notified_file
                ELSE notified_users'
         /\ hist' = [ h0 EXCEPT !.dm[platform][uid] = @ + 1 ]
    ELSE /\ UNCHANGED << notified_users, notified_file >>
         /\ hist' = h0

(***************************************************************************)
(* _cache_pair                                                             *)
(***************************************************************************)
CachePair(discord_id, stoat_id, from_webhook) ==
    /\ d2s' = CacheInsert(d2s, discord_id, stoat_id)
    /\ s2d' = CacheInsert(s2d, stoat_id, discord_id)
    /\ webhook_discord_ids' =
           IF from_webhook
           THEN webhook_discord_ids \cup { discord_id }
           ELSE webhook_discord_ids

\* history: the pair << d, s >> was recorded / was used
Recorded(h0, d, s) ==
    [ h0 EXCEPT !.ins = Append(@, << d, s >>),
                !.touched = Append(SelectSeq(@, LAMBDA e : e # d), d) ]
Touched(h0, d) ==
    [ h0 EXCEPT !.touched = Append(SelectSeq(@, LAMBDA e : e # d), d) ]

\* history of the step just taken: the message a handler has just decided on
\* (why: "own", "unmapped", "notready", "decided") or the send that has just
\* ended (why: "sent", "sentnoid", "sendfail") or the delete call that has
\* just returned (why: "delok", "delgone", "delfail"), as the handler saw it
NoLast ==
    [ why |-> "none", p |-> "", id |-> NoId, raw |-> << >>, reply |-> NoId,
      hit |-> FALSE, quoted |-> FALSE, atts |-> << >>,
      native |-> NoId, quote |-> NoQuote, found |-> FALSE,
      down |-> << >>, fetch |-> << >>, files |-> << >>, sent |-> << >>,
      env |-> << >> ]
Early(why, p, id) == [ NoLast EXCEPT !.why = why, !.p = p, !.id = id ]
\* the history with the record of the previous step cleared
H0 == [ hist EXCEPT !.last = NoLast ]

InitBridge ==
    /\ d2s = << >>
    /\ s2d = << >>
    /\ webhook_discord_ids = {}
    /\ discord_deleting = {}
    /\ stoat_deleting = {}
    /\ notified_users = [ p \in Platforms |-> << >> ]
    /\ notified_file = [ p \in Platforms |-> << >> ]
    /\ discord_webhooks = {}
    /\ stoat_channels = {}
    /\ http_session = FALSE
    /\ tasks = {}
    /\ plat = [ nextD |-> 1, nextS |-> 1,
                dAlive |-> {}, sAlive |-> {},
                dChan |-> [ i \in DIds |-> "" ], sChan |-> [ i \in SIds |-> "" ],
                dBridge |-> {}, sBridge |-> {},
                dDelEcho |-> {}, sDelEcho |-> {} ]
    /\ hist = [ ins |-> << >>, touched |-> << >>,
                callsD |-> [ i \in DIds |-> 0 ], callsS |-> [ i \in SIds |-> 0 ],
                extD |-> [ i \in DIds |-> "no" ], extS |-> [ i \in SIds |-> "no" ],
                evD |-> [ i \in DIds |-> 0 ], evS |-> [ i \in SIds |-> 0 ],
                dm |-> [ p \in Platforms |-> [ u \in Authors |-> 0 ] ],
                seenD |-> {}, seenS |-> {},
                chFail |-> {}, replays |-> 0, last |-> NoLast,
                opened |-> 0, handed |-> 0, closed |-> 0, sends |-> 0 ]

Init == InitBridge /\ startup = RunningConfig


(***************************************************************************)
(* Start-up: StoatBot.on_ready and DiscordBot._setup_webhooks.  A channel  *)
(* whose fetch or webhook set-up raised never becomes ready.               *)
(***************************************************************************)
StoatOnReady ==
    /\ startup.phase = "running"
    /\ UNCHANGED startup
    /\ ~http_session
    /\ http_session' = TRUE
    /\ hist' = H0
    /\ UNCHANGED << d2s, s2d, webhook_discord_ids, discord_deleting, stoat_deleting,
                    notified_users, notified_file, discord_webhooks, stoat_channels,
                    tasks, plat >>

StoatFetchChannel(stoat_id) ==
    /\ startup.phase = "running"
    /\ UNCHANGED startup
    /\ http_session
    /\ stoat_id \in DOMAIN STOAT_TO_DISCORD
    /\ stoat_id \notin stoat_channels
    /\ stoat_channels' = stoat_channels \cup { stoat_id }
    /\ hist' = H0
    /\ UNCHANGED << d2s, s2d, webhook_discord_ids, discord_deleting, stoat_deleting,
                    notified_users, notified_file, discord_webhooks, http_session,
                    tasks, plat >>

SetupWebhook(discord_id) ==
    /\ startup.phase = "running"
    /\ UNCHANGED startup
    /\ discord_id \in DOMAIN DISCORD_TO_STOAT
    /\ discord_id \notin discord_webhooks
    /\ discord_webhooks' = discord_webhooks \cup { discord_id }
    /\ hist' = H0
    /\ UNCHANGED << d2s, s2d, webhook_discord_ids, discord_deleting, stoat_deleting,
                    notified_users, notified_file, stoat_channels, http_session,
                    tasks, plat >>

(***************************************************************************)
(* DiscordBot.on_message                                                   *)
(***************************************************************************)
\* A user posts a message; the handler runs up to its first await
\* (clean_discord_content).
\* on_message from the channel check on, for message d of author in channel ch
OnMessage(d, author, ch, saveOk, h1) ==
    LET mapped == ch \in DOMAIN DISCORD_TO_STOAT
        ready == mapped /\ DISCORD_TO_STOAT[ch] \in stoat_channels
    IN  IF ~mapped
        THEN /\ hist' = [ h1 EXCEPT !.last = Early("unmapped", "discord", d) ]
             /\ UNCHANGED << notified_users, notified_file, tasks >>
        ELSE /\ FirstTimeDM("discord", author, saveOk,
                   IF ready THEN h1
                   ELSE [ h1 EXCEPT !.last = Early("notready", "discord", d) ])
             /\ IF ready
                THEN /\ CanSpawn
                     /\ tasks' = tasks \cup
                            { Task("d_msg", "clean", d, ch, NoId, 1) }
                ELSE tasks' = tasks

DiscordOnMessage(author, ch, saveOk) ==
    /\ startup.phase = "running"
    /\ UNCHANGED startup
    /\ plat.nextD <= MaxId
    /\ LET d == plat.nextD
       IN  /\ plat' = [ plat EXCEPT !.nextD = d + 1, !.dAlive = @ \cup { d },
                                    !.dChan[d] = ch ]
           /\ OnMessage(d, author, ch, saveOk, [ H0 EXCEPT !.seenD = @ \cup { d } ])
    /\ UNCHANGED << d2s, s2d, webhook_discord_ids, discord_deleting, stoat_deleting,
                    discord_webhooks, stoat_channels, http_session >>

\* Discord reports a message the bridge sent through its webhook:
\* message.webhook_id is the id of a webhook in discord_webhooks.
\* if message.author == self.user: return;  if message.webhook_id in
\* {wh.id for wh in discord_webhooks.values()}: return -- for a message the
\* bridge sent through the webhook of its channel
OwnDiscordNever(d) == FALSE
OwnDiscord(d) == plat.dChan[d] \in discord_webhooks

DiscordOnMessageOwn(d) ==
    /\ startup.phase = "running"
    /\ UNCHANGED startup
    /\ d \in plat.dBridge \ hist.seenD
    /\ LET h1 == [ H0 EXCEPT !.seenD = @ \cup { d } ]
       IN  IF OwnDiscord(d)
           THEN /\ hist' = [ h1 EXCEPT !.last = Early("own", "discord", d) ]
                /\ UNCHANGED << notified_users, notified_file, tasks >>
           ELSE OnMessage(d, Bridge, plat.dChan[d], TRUE, h1)
    /\ UNCHANGED << d2s, s2d, webhook_discord_ids, discord_deleting, stoat_deleting,
                    discord_webhooks, stoat_channels, http_session, plat >>

\* The text Discord -> Stoat forwards: cleaned content, a quote line when the
\* reply target is not in the cache and could be fetched, one URL per attachment.
DiscordOutgoing(raw, quoted, atts) ==
    (IF quoted THEN << "Q", "nl" >> ELSE << >>)
        \o CleanContent(raw)
        \o (IF atts = << >> THEN << >> ELSE << "sp", "U" >>)

\* if not content.strip(): return
DiscordDropsNever(content) == FALSE
DiscordDrops(content) == IsBlank(content)

\* The handler resumes after clean_discord_content, resolves the reply (fetching
\* the target when it is not cached), appends the attachment URLs and either
\* returns or issues ch.send.
DiscordAfterClean(t, raw, reply, fetched, atts) ==
    /\ startup.phase = "running"
    /\ UNCHANGED startup
    /\ t \in tasks /\ t.h = "d_msg" /\ t.pc = "clean"
    /\ reply \in (0 .. (plat.nextD - 1)) \ { t.id }
    /\ atts \in { << >>, << "ok" >> }
    /\ LET cached == IF reply # NoId THEN CacheGet(d2s, reply) ELSE NoId
           quoted == reply # NoId /\ cached = NoId /\ fetched.found
           content == DiscordOutgoing(raw, quoted, atts)
           h1 == [ (IF cached # NoId THEN Touched(H0, reply) ELSE H0) EXCEPT
                     !.last = [ why |-> "decided", p |-> "discord", id |-> t.id,
                                raw |-> raw, reply |-> reply, hit |-> cached # NoId,
                                quoted |-> quoted, atts |-> atts,
                                native |-> cached,
                                quote |-> IF quoted THEN QuoteLine(fetched)
                                          ELSE NoQuote,
                                found |-> reply # NoId /\ fetched.found,
                                down |-> << >>, fetch |-> << >>,
                                files |-> << >>,
                                sent |-> Truncate(content, CONTENT_MAX) ] ]
       IN  /\ d2s' = IF reply # NoId THEN AfterGet(d2s, reply) ELSE d2s
           /\ hist' = [ h1 EXCEPT !.sends = @ + (IF DiscordDrops(content) THEN 0 ELSE 1) ]
           /\ tasks' = IF DiscordDrops(content)
                       THEN tasks \ { t }
                       ELSE (tasks \ { t }) \cup { [ t EXCEPT !.pc = "send" ] }
    /\ UNCHANGED << s2d, webhook_discord_ids, discord_deleting, stoat_deleting,
                    notified_users, notified_file, discord_webhooks, stoat_channels,
                    http_session, plat >>

\* ch.send returns or raises:
\*   "ok"     the Stoat message exists, authored by the bridge, and its id is
\*            extracted and cached
\*   "noid"   the Stoat message exists but _extract_id finds no id: not cached
\*   "error"  ch.send raised
\* sent_id = _extract_id(sent); if sent_id: _cache_pair(message.id, sent_id) --
\* reached only when ch.send has returned, with an id that can be extracted
CachesAlways(result) == TRUE
Caches(result) == result = "ok"

DiscordSendDone(t, result) ==
    /\ startup.phase = "running"
    /\ UNCHANGED startup
    /\ t \in tasks /\ t.h = "d_msg" /\ t.pc = "send"
    /\ tasks' = tasks \ { t }
    /\ result # "error" => plat.nextS <= MaxId
    /\ LET s == plat.nextS
           why == CASE result = "ok" -> "sent"
                    [] result = "noid" -> "sentnoid"
                    [] result = "error" -> "sendfail"
           h1 == [ H0 EXCEPT !.last = Early(why, "discord", t.id) ]
       IN  /\ plat' = IF result # "error"
                      THEN [ plat EXCEPT !.nextS = s + 1, !.sAlive = @ \cup { s },
                                         !.sChan[s] = DISCORD_TO_STOAT[t.ch],
                                         !.sBridge = @ \cup { s } ]
                      ELSE plat
           /\ IF Caches(result)
              THEN /\ CachePair(t.id, s, FALSE)
                   /\ hist' = Recorded(h1, t.id, s)
              ELSE /\ hist' = h1
                   /\ UNCHANGED << d2s, s2d, webhook_discord_ids >>
    /\ UNCHANGED << discord_deleting, stoat_deleting, notified_users, notified_file,
                    discord_webhooks, stoat_channels, http_session >>

(***************************************************************************)
(* StoatBot.on_message_create                                              *)
(***************************************************************************)
\* on_message_create from the channel check on, for message s of author in
\* channel ch
OnMessageCreate(s, author, ch, saveOk, h1) ==
    LET mapped == ch \in DOMAIN STOAT_TO_DISCORD
        ready == mapped /\ STOAT_TO_DISCORD[ch] \in discord_webhooks
    IN  IF ~mapped
        THEN /\ hist' = [ h1 EXCEPT !.last = Early("unmapped", "stoat", s) ]
             /\ UNCHANGED << notified_users, notified_file, tasks >>
        ELSE /\ FirstTimeDM("stoat", author, saveOk,
                   IF ready THEN h1
                   ELSE [ h1 EXCEPT !.last = Early("notready", "stoat", s) ])
             /\ IF ready
                THEN /\ CanSpawn
                     /\ tasks' = tasks \cup
                            { Task("s_msg", "clean", s, ch, NoId, 1) }
                ELSE tasks' = tasks

StoatOnMessageCreate(author, ch, saveOk) ==
    /\ startup.phase = "running"
    /\ UNCHANGED startup
    /\ http_session
    /\ plat.nextS <= MaxId
    /\ LET s == plat.nextS
       IN  /\ plat' = [ plat EXCEPT !.nextS = s + 1, !.sAlive = @ \cup { s },
                                    !.sChan[s] = ch ]
           /\ OnMessageCreate(s, author, ch, saveOk,
                  [ H0 EXCEPT !.seenS = @ \cup { s } ])
    /\ UNCHANGED << d2s, s2d, webhook_discord_ids, discord_deleting, stoat_deleting,
                    discord_webhooks, stoat_channels, http_session >>

\* Stoat reports a message the bridge sent: msg.author_id == self.me.id
\* if msg.author_id == self.me.id: return -- every message the bridge sends
\* to Stoat is authored by its own account
OwnStoat(s) == s \in plat.sBridge

StoatOnMessageOwn(s) ==
    /\ startup.phase = "running"
    /\ UNCHANGED startup
    /\ http_session
    /\ s \in plat.sBridge \ hist.seenS
    /\ LET h1 == [ H0 EXCEPT !.seenS = @ \cup { s } ]
       IN  IF OwnStoat(s)
           THEN /\ hist' = [ h1 EXCEPT !.last = Early("own", "stoat", s) ]
                /\ UNCHANGED << notified_users, notified_file, tasks >>
           ELSE OnMessageCreate(s, Bridge, plat.sChan[s], TRUE, h1)
    /\ UNCHANGED << d2s, s2d, webhook_discord_ids, discord_deleting, stoat_deleting,
                    discord_webhooks, stoat_channels, http_session, plat >>

\* The text Stoat -> Discord forwards: a quote line when the reply target could
\* be fetched, the cleaned content, the URL of every attachment whose download
\* failed.
RECURSIVE FailedLinks(_)
FailedLinks(atts) ==
    IF atts = << >> THEN << >>
    ELSE (IF AttKind(Head(atts)) = "fail" THEN << "nl", Head(atts).url >> ELSE << >>)
             \o FailedLinks(Tail(atts))

StoatOutgoing(raw, quoted, atts) ==
    (IF quoted THEN << "Q", "nl" >> ELSE << >>)
        \o CleanContent(raw)
        \o FailedLinks(atts)

\* discord_files: the lengths of the attachments that were downloaded
RECURSIVE StoatFiles(_)
StoatFiles(atts) ==
    IF atts = << >> THEN << >>
    ELSE (IF AttKind(Head(atts)) = "ok" THEN << Fetched(Head(atts)).data >> ELSE << >>)
             \o StoatFiles(Tail(atts))

\* if not content.strip() and not discord_files: return
StoatDropsIgnoringFiles(content, files) == IsBlank(content)
StoatDrops(content, files) == IsBlank(content) /\ files = << >>

\* if reply_id: orig = await fetch_stoat_message(...); if orig is not None: the
\* quote line is prepended
StoatQuotesUnfetched(reply, fetched) == reply # NoId
StoatQuotes(reply, fetched) == reply # NoId /\ fetched.found

\* The handler resumes after clean_stoat_content, fetches the reply target,
\* downloads the attachments and either returns or issues webhook.send.
StoatAfterClean(t, raw, reply, fetched, atts) ==
    /\ startup.phase = "running"
    /\ UNCHANGED startup
    /\ t \in tasks /\ t.h = "s_msg" /\ t.pc = "clean"
    /\ reply \in (0 .. (plat.nextS - 1)) \ { t.id }
    /\ LET quoted == StoatQuotes(reply, fetched)
           content == StoatOutgoing(raw, quoted, atts)
           files == StoatFiles(atts)
           drops == StoatDrops(content, files)
       IN  /\ hist' = [ H0 EXCEPT
                     !.opened = @ + Len(files),
                     !.handed = @ + (IF drops THEN 0 ELSE Len(files)),
                     !.sends = @ + (IF drops THEN 0 ELSE 1),
                     !.last = [ why |-> "decided", p |-> "stoat", id |-> t.id,
                                raw |-> raw, reply |-> reply, hit |-> FALSE,
                                quoted |-> quoted,
                                atts |-> [ i \in 1 .. Len(atts) |-> AttKind(atts[i]) ],
                                native |-> NoId,
                                quote |-> IF quoted THEN QuoteLine(fetched)
                                          ELSE NoQuote,
                                found |-> reply # NoId /\ fetched.found,
                                down |-> atts,
                                fetch |-> [ i \in 1 .. Len(atts) |-> Fetched(atts[i]) ],
                                files |-> files,
                                sent |-> SentContent(content) ] ]
           /\ tasks' = IF drops
                       THEN tasks \ { t }
                       ELSE (tasks \ { t }) \cup
                                { [ t EXCEPT !.pc = "send", !.files = files ] }
    /\ UNCHANGED << d2s, s2d, webhook_discord_ids, discord_deleting, stoat_deleting,
                    notified_users, notified_file, discord_webhooks, stoat_channels,
                    http_session, plat >>

\* finally: for f in discord_files: f.fp.close() -- the number of buffers
\* closed when the send has returned (ok) or raised
ClosedOnSuccess(files, ok) == IF ok THEN Len(files) ELSE 0
ClosedFinally(files, ok) == Len(files)

\* webhook.send(wait=True) returns the Discord message or raises.
StoatSendDone(t, ok) ==
    /\ startup.phase = "running"
    /\ UNCHANGED startup
    /\ t \in tasks /\ t.h = "s_msg" /\ t.pc = "send"
    /\ tasks' = tasks \ { t }
    /\ IF ok
       THEN /\ plat.nextD <= MaxId
            /\ LET d == plat.nextD
               IN  /\ plat' = [ plat EXCEPT !.nextD = d + 1, !.dAlive = @ \cup { d },
                                            !.dChan[d] = STOAT_TO_DISCORD[t.ch],
                                            !.dBridge = @ \cup { d } ]
                   /\ CachePair(d, t.id, TRUE)
                   /\ hist' = Recorded(
                          [ H0 EXCEPT !.closed = @ + ClosedFinally(t.files, ok),
                                      !.last = Early("sent", "stoat", t.id) ],
                          d, t.id)
       ELSE /\ hist' = [ H0 EXCEPT !.closed = @ + ClosedFinally(t.files, ok),
                                   !.last = Early("sendfail", "stoat", t.id) ]
            /\ UNCHANGED << d2s, s2d, webhook_discord_ids, plat >>
    /\ UNCHANGED << discord_deleting, stoat_deleting, notified_users, notified_file,
                    discord_webhooks, stoat_channels, http_session >>


(***************************************************************************)
(* The self-delete markers (_discord_deleting, _stoat_deleting).           *)
(***************************************************************************)
\* _x_deleting.add(id), right before the delete call
MarkSelfNot(marked, id) == marked
MarkSelf(marked, id) == marked \cup { id }

\* "if id in _x_deleting: _x_deleting.discard(id); return" of the handlers
ConsumeMarkerKeep(marked, id) == marked
ConsumeMarker(marked, id) == marked \ { id }

\* _x_deleting.discard(id) after a delete call that failed
\* except discord.NotFound: _discord_deleting.discard(discord_msg_id)
DiscardGoneKeep(marked, id) == marked
DiscardGone(marked, id) == marked \ { id }

DiscardFailedKeep(marked, id) == marked
DiscardFailed(marked, id) == marked \ { id }

(***************************************************************************)
(* DiscordBot.on_raw_message_delete                                        *)
(***************************************************************************)
\* The handler up to its first await, for the k-th delete event of Discord
\* message d; h0 is the history before it.  delete_stoat_message issues its
\* request without suspending, unless the HTTP session is not set, in which
\* case it returns False at once and the marker is discarded again.
OnRawMessageDelete(d, h0) ==
    LET ch == plat.dChan[d]
        s == CacheGet(d2s, d)
        h1 == [ h0 EXCEPT !.evD[d] = @ + 1 ]
    IN  IF d \in discord_deleting
        THEN /\ discord_deleting' = ConsumeMarker(discord_deleting, d)
             /\ hist' = h1
             /\ UNCHANGED << d2s, stoat_deleting, tasks >>
        ELSE IF ch \notin DOMAIN DISCORD_TO_STOAT
        THEN /\ hist' = h1
             /\ UNCHANGED << d2s, discord_deleting, stoat_deleting, tasks >>
        ELSE IF s = NoId
        THEN /\ d2s' = AfterGet(d2s, d)
             /\ hist' = h1
             /\ UNCHANGED << discord_deleting, stoat_deleting, tasks >>
        ELSE IF ~http_session
        THEN /\ d2s' = AfterGet(d2s, d)
             /\ hist' = Touched(h1, d)
             /\ UNCHANGED << discord_deleting, stoat_deleting, tasks >>
        ELSE /\ CanSpawn
             /\ d2s' = AfterGet(d2s, d)
             /\ stoat_deleting' = MarkSelf(stoat_deleting, s)
             /\ tasks' = tasks \cup
                    { Task("d_del", "del", d, DISCORD_TO_STOAT[ch], s, h1.evD[d]) }
             /\ hist' = [ Touched(h1, d) EXCEPT !.callsS[s] = @ + 1 ]
             /\ UNCHANGED discord_deleting

\* A user (or moderator) deletes a Discord message; Discord reports it.
DiscordDeleteExternal(d) ==
    /\ startup.phase = "running"
    /\ UNCHANGED startup
    /\ d \in plat.dAlive
    /\ plat' = [ plat EXCEPT !.dAlive = @ \ { d } ]
    /\ OnRawMessageDelete(d,
           [ H0 EXCEPT !.extD[d] = IF CacheGet(d2s, d) # NoId THEN "hit" ELSE "miss" ])
    /\ UNCHANGED << s2d, webhook_discord_ids, notified_users, notified_file,
                    discord_webhooks, stoat_channels, http_session >>

\* Discord reports the deletion the bridge itself carried out.
DiscordDeleteEcho(d) ==
    /\ startup.phase = "running"
    /\ UNCHANGED startup
    /\ d \in plat.dDelEcho
    /\ plat' = [ plat EXCEPT !.dDelEcho = @ \ { d } ]
    /\ OnRawMessageDelete(d, H0)
    /\ UNCHANGED << s2d, webhook_discord_ids, notified_users, notified_file,
                    discord_webhooks, stoat_channels, http_session >>

\* history of a delete call that has just returned, for the target message
DeleteOutcome(result, p, id) ==
    Early(CASE result = "ok" -> "delok"
            [] result = "notfound" -> "delgone"
            [] result = "error" -> "delfail", p, id)

\* delete_stoat_message returns:
\*   "ok"        True: HTTP 200/204, the message is gone and Stoat will report it
\*   "notfound"  False: HTTP 404, the message was gone already
\*   "error"     False: any other status, or an exception
DiscordDeleteDone(t, result) ==
    /\ startup.phase = "running"
    /\ UNCHANGED startup
    /\ t \in tasks /\ t.h = "d_del" /\ t.pc = "del"
    /\ tasks' = tasks \ { t }
    /\ hist' = [ H0 EXCEPT !.last = DeleteOutcome(result, "stoat", t.peer) ]
    /\ CASE result = "ok" ->
              /\ t.peer \in plat.sAlive
              /\ plat' = [ plat EXCEPT !.sAlive = @ \ { t.peer },
                                       !.sDelEcho = @ \cup { t.peer } ]
              /\ UNCHANGED stoat_deleting
         [] result = "notfound" ->
              /\ t.peer \notin plat.sAlive
              /\ stoat_deleting' = DiscardFailed(stoat_deleting, t.peer)
              /\ UNCHANGED plat
         [] result = "error" ->
              /\ stoat_deleting' = DiscardFailed(stoat_deleting, t.peer)
              /\ UNCHANGED plat
    /\ UNCHANGED << d2s, s2d, webhook_discord_ids, discord_deleting, notified_users,
                    notified_file, discord_webhooks, stoat_channels, http_session >>

(***************************************************************************)
(* StoatBot.on_message_delete                                              *)
(*                                                                         *)
(* The event carries the message id and the id of the message's channel.   *)
(* A Discord id is in _webhook_discord_ids only after a send through the   *)
(* webhook of the paired channel, and webhooks are never unregistered, so  *)
(* "webhook is None" (the loop over every webhook) does not occur; neither *)
(* does a missing Discord channel id or bot reference.                     *)
(***************************************************************************)
\* The handler up to its first await, for the k-th delete event of Stoat
\* message s.  chCached: DiscordBot.get_channel finds the channel in its cache.
OnMessageDelete(s, chCached, h0) ==
    LET d == CacheGet(s2d, s)
        discord_ch_id == STOAT_TO_DISCORD[plat.sChan[s]]
        h1 == [ h0 EXCEPT !.evS[s] = @ + 1 ]
    IN  IF s \in stoat_deleting
        THEN /\ stoat_deleting' = ConsumeMarker(stoat_deleting, s)
             /\ hist' = h1
             /\ UNCHANGED << s2d, discord_deleting, tasks >>
        ELSE IF d = NoId
        THEN /\ s2d' = AfterGet(s2d, s)
             /\ hist' = h1
             /\ UNCHANGED << stoat_deleting, discord_deleting, tasks >>
        ELSE /\ CanSpawn
             /\ s2d' = AfterGet(s2d, s)
             /\ discord_deleting' = MarkSelf(discord_deleting, d)
             /\ UNCHANGED stoat_deleting
             /\ IF d \in webhook_discord_ids
                THEN \* Case 1: await webhook.delete_message(discord_msg_id)
                     /\ tasks' = tasks \cup
                            { Task("s_del", "wdel", s, discord_ch_id, d, h1.evS[s]) }
                     /\ hist' = [ Touched(h1, d) EXCEPT !.callsD[d] = @ + 1 ]
                ELSE IF chCached
                THEN \* Case 2, channel cached: await msg.delete()
                     /\ tasks' = tasks \cup
                            { Task("s_del", "udel", s, discord_ch_id, d, h1.evS[s]) }
                     /\ hist' = [ Touched(h1, d) EXCEPT !.callsD[d] = @ + 1 ]
                ELSE \* Case 2, channel not cached: await fetch_channel(...)
                     /\ tasks' = tasks \cup
                            { Task("s_del", "fetchch", s, discord_ch_id, d, h1.evS[s]) }
                     /\ hist' = Touched(h1, d)

\* A user (or moderator) deletes a Stoat message; Stoat reports it.
StoatDeleteExternal(s, chCached) ==
    /\ startup.phase = "running"
    /\ UNCHANGED startup
    /\ http_session
    /\ s \in plat.sAlive
    /\ plat' = [ plat EXCEPT !.sAlive = @ \ { s } ]
    /\ OnMessageDelete(s, chCached,
           [ H0 EXCEPT !.extS[s] = IF CacheGet(s2d, s) # NoId THEN "hit" ELSE "miss" ])
    /\ UNCHANGED << d2s, webhook_discord_ids, notified_users, notified_file,
                    discord_webhooks, stoat_channels, http_session >>

\* Stoat reports the deletion the bridge itself carried out.
StoatDeleteEcho(s, chCached) ==
    /\ startup.phase = "running"
    /\ UNCHANGED startup
    /\ s \in plat.sDelEcho
    /\ plat' = [ plat EXCEPT !.sDelEcho = @ \ { s } ]
    /\ OnMessageDelete(s, chCached, H0)
    /\ UNCHANGED << d2s, webhook_discord_ids, notified_users, notified_file,
                    discord_webhooks, stoat_channels, http_session >>

\* fetch_channel returns, and msg.delete() is issued; or it raises.
StoatFetchChannelDone(t, ok) ==
    /\ startup.phase = "running"
    /\ UNCHANGED startup
    /\ t \in tasks /\ t.h = "s_del" /\ t.pc = "fetchch"
    /\ IF ok
       THEN /\ tasks' = (tasks \ { t }) \cup { [ t EXCEPT !.pc = "udel" ] }
            /\ hist' = [ H0 EXCEPT !.callsD[t.peer] = @ + 1 ]
            /\ UNCHANGED discord_deleting
       ELSE /\ tasks' = tasks \ { t }
            /\ discord_deleting' = DiscardFailed(discord_deleting, t.peer)
            /\ hist' = [ H0 EXCEPT !.chFail = @ \cup { t.peer } ]
    /\ UNCHANGED << d2s, s2d, webhook_discord_ids, stoat_deleting, notified_users,
                    notified_file, discord_webhooks, stoat_channels, http_session,
                    plat >>

\* webhook.delete_message / msg.delete() returns or raises:
\*   "ok"        the message is gone and Discord will report it
\*   "notfound"  discord.NotFound: the message was gone already
\*   "error"     any other exception
StoatDeleteDone(t, result) ==
    /\ startup.phase = "running"
    /\ UNCHANGED startup
    /\ t \in tasks /\ t.h = "s_del" /\ t.pc \in { "wdel", "udel" }
    /\ tasks' = tasks \ { t }
    /\ hist' = [ H0 EXCEPT !.last = DeleteOutcome(result, "discord", t.peer) ]
    /\ CASE result = "ok" ->
              /\ t.peer \in plat.dAlive
              /\ t.pc = "wdel" => t.peer \in plat.dBridge
              /\ plat' = [ plat EXCEPT !.dAlive = @ \ { t.peer },
                                       !.dDelEcho = @ \cup { t.peer } ]
              /\ webhook_discord_ids' =
                     IF t.pc = "wdel"
                     THEN webhook_discord_ids \ { t.peer }
                     ELSE webhook_discord_ids
              /\ UNCHANGED discord_deleting
         [] result = "notfound" ->
              /\ t.peer \notin plat.dAlive
              /\ discord_deleting' = DiscardGone(discord_deleting, t.peer)
              /\ UNCHANGED << webhook_discord_ids, plat >>
         [] result = "error" ->
              /\ discord_deleting' = DiscardFailed(discord_deleting, t.peer)
              /\ UNCHANGED << webhook_discord_ids, plat >>
    /\ UNCHANGED << d2s, s2d, stoat_deleting, notified_users, notified_file,
                    discord_webhooks, stoat_channels, http_session >>

(***************************************************************************)
(* The bridge: start-up, both message handlers, both delete handlers.      *)
(* One author, text content, no attachments, every reply target; the       *)
(* other inputs of the message handlers are explored by SpecNotify and     *)
(* SpecFilter.                                                             *)
(***************************************************************************)
Setup ==
    \/ StoatOnReady
    \/ \E c \in DOMAIN STOAT_TO_DISCORD : StoatFetchChannel(c)
    \/ \E c \in DOMAIN DISCORD_TO_STOAT : SetupWebhook(c)

Deletes ==
    \/ \E d \in DIds : DiscordDeleteExternal(d)
    \/ \E d \in DIds : DiscordDeleteEcho(d)
    \/ \E t \in tasks, r \in { "ok", "notfound", "error" } : DiscordDeleteDone(t, r)
    \/ \E s \in SIds, c \in BOOLEAN : StoatDeleteExternal(s, c)
    \/ \E s \in SIds, c \in BOOLEAN : StoatDeleteEcho(s, c)
    \/ \E t \in tasks, ok \in BOOLEAN : StoatFetchChannelDone(t, ok)
    \/ \E t \in tasks, r \in { "ok", "notfound", "error" } : StoatDeleteDone(t, r)

Next ==
    \/ Setup
    \/ \E c \in DChannels : DiscordOnMessage("u1", c, TRUE)
    \/ \E t \in tasks, r \in { NoId } \cup DIds :
          DiscordAfterClean(t, << "x" >>, r, ShortMsg, << >>)
    \/ \E t \in tasks, r \in { "ok", "noid", "error" } : DiscordSendDone(t, r)
    \/ \E c \in SChannels : StoatOnMessageCreate("u1", c, TRUE)
    \/ \E t \in tasks : StoatAfterClean(t, << "x" >>, NoId, ShortMsg, << >>)
    \/ \E t \in tasks, ok \in BOOLEAN : StoatSendDone(t, ok)
    \/ Deletes

Spec == Init /\ [][Next]_vars

(***************************************************************************)
(* The correlation cache on its own: any sequence of _cache_pair calls and *)
(* of the lookups the handlers make, over ids that may repeat.             *)
(***************************************************************************)
\* ids of the cache on its own: enough to overflow it by one pair
CacheIds == 1 .. (MSG_CACHE_SIZE + 1)

CachePairCall(d, s, from_webhook) ==
    /\ startup.phase = "running"
    /\ UNCHANGED startup
    /\ Len(hist.ins) < MaxCalls
    /\ CachePair(d, s, from_webhook)
    /\ hist' = Recorded(H0, d, s)
    /\ UNCHANGED << discord_deleting, stoat_deleting, notified_users, notified_file,
                    discord_webhooks, stoat_channels, http_session, tasks, plat >>

\* _d2s.get(ref_discord_id) of on_message, _d2s.get(discord_msg_id) of
\* on_raw_message_delete
LookupD2S(d) ==
    /\ startup.phase = "running"
    /\ UNCHANGED startup
    /\ d2s' = AfterGet(d2s, d)
    /\ hist' = IF CacheGet(d2s, d) # NoId THEN Touched(H0, d) ELSE H0
    /\ UNCHANGED << s2d, webhook_discord_ids, discord_deleting, stoat_deleting,
                    notified_users, notified_file, discord_webhooks, stoat_channels,
                    http_session, tasks, plat >>

\* _s2d.get(str(msg_id)) of on_message_delete
LookupS2D(s) ==
    /\ startup.phase = "running"
    /\ UNCHANGED startup
    /\ s2d' = AfterGet(s2d, s)
    /\ hist' = IF CacheGet(s2d, s) # NoId THEN Touched(H0, CacheGet(s2d, s)) ELSE H0
    /\ UNCHANGED << d2s, webhook_discord_ids, discord_deleting, stoat_deleting,
                    notified_users, notified_file, discord_webhooks, stoat_channels,
                    http_session, tasks, plat >>

NextCache ==
    \/ \E d \in CacheIds, s \in CacheIds, w \in BOOLEAN : CachePairCall(d, s, w)
    \/ \E d \in CacheIds : LookupD2S(d)
    \/ \E s \in CacheIds : LookupS2D(s)

SpecCache == Init /\ [][NextCache]_vars

\* the pairs recorded so far share no Discord id and no Stoat id
DistinctLog ==
    \A i, j \in 1 .. Len(hist.ins) :
        i # j => hist.ins[i][1] # hist.ins[j][1] /\ hist.ins[i][2] # hist.ins[j][2]

(***************************************************************************)
(* C2.  In every reachable state, under any sequence of _cache_pair calls, *)
(* _d2s[d] = s if and only if _s2d[s] = d.                                 *)
(* Fails: _cache_pair(1, 1) then _cache_pair(1, 2) leaves _s2d[1] = 1      *)
(* while _d2s[1] = 2 (the defect of C3).                                   *)
(***************************************************************************)
C2_BothDirectionsOrNeither ==
    \A d \in CacheIds, s \in CacheIds :
        CacheGet(d2s, d) = s <=> CacheGet(s2d, s) = d

(***************************************************************************)
(* C3.  After _cache_pair(d, s) with d or s already cached with another    *)
(* peer, no Discord id and no Stoat id is the peer of two different ids.   *)
(* Fails: the entry of the old peer stays in the other direction.          *)
(***************************************************************************)
C3_NoIdHasTwoPeers ==
    /\ \A s1, s2 \in CacheKeys(s2d) :
           CacheGet(s2d, s1) = CacheGet(s2d, s2) => s1 = s2
    /\ \A d1, d2 \in CacheKeys(d2s) :
           CacheGet(d2s, d1) = CacheGet(d2s, d2) => d1 = d2

PositionIn(q, e) == CHOOSE i \in 1 .. Len(q) : q[i] = e

LastRecorded ==
    LET n == Len(hist.ins)
        k == IF n > MSG_CACHE_SIZE THEN MSG_CACHE_SIZE ELSE n
    IN  SubSeq(hist.ins, n - k + 1, n)

DiscordDeleteReplay(d) ==
    /\ startup.phase = "running"
    /\ UNCHANGED startup
    /\ hist.evD[d] >= 1
    /\ hist.replays < MaxReplay
    /\ OnRawMessageDelete(d, [ H0 EXCEPT !.replays = @ + 1 ])
    /\ UNCHANGED << s2d, webhook_discord_ids, notified_users, notified_file,
                    discord_webhooks, stoat_channels, http_session, plat >>

StoatDeleteReplay(s, chCached) ==
    /\ startup.phase = "running"
    /\ UNCHANGED startup
    /\ hist.evS[s] >= 1
    /\ hist.replays < MaxReplay
    /\ OnMessageDelete(s, chCached, [ H0 EXCEPT !.replays = @ + 1 ])
    /\ UNCHANGED << d2s, webhook_discord_ids, notified_users, notified_file,
                    discord_webhooks, stoat_channels, http_session, plat >>

NextReplay ==
    \/ Next
    \/ \E d \in DIds : DiscordDeleteReplay(d)
    \/ \E s \in SIds, c \in BOOLEAN : StoatDeleteReplay(s, c)

SpecReplay == Init /\ [][NextReplay]_vars

(***************************************************************************)
(* The message handlers with every author and both outcomes of saving the  *)
(* ledger.                                                                 *)
(***************************************************************************)
NextNotify ==
    \/ Setup
    \/ \E u \in Users, c \in DChannels, ok \in BOOLEAN : DiscordOnMessage(u, c, ok)
    \/ \E t \in tasks : DiscordAfterClean(t, << "x" >>, NoId, ShortMsg, << >>)
    \/ \E t \in tasks, r \in { "ok", "noid", "error" } : DiscordSendDone(t, r)
    \/ \E u \in Users, c \in SChannels, ok \in BOOLEAN : StoatOnMessageCreate(u, c, ok)
    \/ \E t \in tasks : StoatAfterClean(t, << "x" >>, NoId, ShortMsg, << >>)
    \/ \E t \in tasks, ok \in BOOLEAN : StoatSendDone(t, ok)

SpecNotify == Init /\ [][NextNotify]_vars

(***************************************************************************)
(* The message handlers with every content, reply and attachment, and the  *)
(* events for the bridge's own messages.                                   *)
(***************************************************************************)
NextFilter ==
    \/ Setup
    \/ \E c \in DChannels : DiscordOnMessage("u1", c, TRUE)
    \/ \E d \in DIds : DiscordOnMessageOwn(d)
    \/ \E t \in tasks, raw \in Contents, r \in { NoId } \cup DIds,
          a \in { << >>, << "ok" >> } :
          \E f \in (IF r = NoId THEN { ShortMsg } ELSE { NoMsg, ShortMsg }) :
              DiscordAfterClean(t, raw, r, f, a)
    \/ \E t \in tasks, r \in { "ok", "noid", "error" } : DiscordSendDone(t, r)
    \/ \E c \in SChannels : StoatOnMessageCreate("u1", c, TRUE)
    \/ \E s \in SIds : StoatOnMessageOwn(s)
    \/ \E t \in tasks, raw \in Contents, r \in { NoId } \cup SIds, a \in StoatAttLists :
          \E f \in (IF r = NoId THEN { ShortMsg } ELSE { NoMsg, ShortMsg }) :
              StoatAfterClean(t, raw, r, f, a)
    \/ \E t \in tasks, ok \in BOOLEAN : StoatSendDone(t, ok)

SpecFilter == Init /\ [][NextFilter]_vars

(***************************************************************************)
(* Delete propagation: what a step did, read off the history.              *)
(***************************************************************************)
\* the step handles a delete event for Discord message d / Stoat message s
EventD(d) == hist'.evD[d] = hist.evD[d] + 1
EventS(s) == hist'.evS[s] = hist.evS[s] + 1

\* the step issues a delete call for Discord message d / Stoat message s
CallD(d) == hist'.callsD[d] = hist.callsD[d] + 1
CallS(s) == hist'.callsS[s] = hist.callsS[s] + 1

\* the step ends a handler whose delete call (or the channel fetch before
\* it) for the message failed / whose delete call succeeded
FailedD(d) ==
    /\ \E t \in tasks \ tasks' : t.h = "s_del" /\ t.peer = d
    /\ tasks' \subseteq tasks
    /\ plat' = plat
FailedS(s) ==
    /\ \E t \in tasks \ tasks' : t.h = "d_del" /\ t.peer = s
    /\ tasks' \subseteq tasks
    /\ plat' = plat
SucceededD(d) == d \in plat'.dDelEcho \ plat.dDelEcho
SucceededS(s) == s \in plat'.sDelEcho \ plat.sDelEcho

\* a handler of a delete event of the message is suspended
InFlightD(d) == \E t \in tasks : t.h = "d_del" /\ t.id = d
InFlightS(s) == \E t \in tasks : t.h = "s_del" /\ t.id = s

(***************************************************************************)
(* C1.  Once a pair (d, s) is recorded, one external delete event for d    *)
(* causes exactly one delete call for s, and the event Stoat then reports  *)
(* for s causes no delete call for d; symmetrically for an external delete *)
(* event for s.  A pair counts when it was cached at the event and its     *)
(* peer was not deleted by a user as well; the Stoat handler has run to    *)
(* its end.                                                                *)
(***************************************************************************)
C1_ExactlyOneCallNoBounce ==
    \A i \in 1 .. Len(hist.ins) :
        LET d == hist.ins[i][1]
            s == hist.ins[i][2]
        IN  /\ (hist.extD[d] = "hit" /\ hist.extS[s] = "no") =>
                   hist.callsS[s] = 1 /\ hist.callsD[d] = 0
            /\ (hist.extS[s] = "hit" /\ hist.extD[d] = "no" /\ ~InFlightS(s)) =>
                   hist.callsD[d] = 1 /\ hist.callsS[s] = 0

\* C1 as amended: exactly one delete call, except that a Stoat delete event
\* whose handler could not fetch the Discord channel causes none; never a
\* call back.
C1_OneCallUnlessChannelFetchFails ==
    \A i \in 1 .. Len(hist.ins) :
        LET d == hist.ins[i][1]
            s == hist.ins[i][2]
        IN  /\ (hist.extD[d] = "hit" /\ hist.extS[s] = "no") =>
                   hist.callsS[s] = 1 /\ hist.callsD[d] = 0
            /\ (hist.extS[s] = "hit" /\ hist.extD[d] = "no" /\ ~InFlightS(s)) =>
                   /\ hist.callsD[d] = (IF d \in hist.chFail THEN 0 ELSE 1)
                   /\ hist.callsS[s] = 0

\* both directions have run: a Discord delete was propagated and its echo
\* handled, and so was a Stoat delete
C1_BothDirectionsPropagated ==
    /\ \E i \in 1 .. Len(hist.ins) :
           /\ hist.extD[hist.ins[i][1]] = "hit"
           /\ hist.callsS[hist.ins[i][2]] = 1
           /\ hist.evS[hist.ins[i][2]] = 1
    /\ \E i \in 1 .. Len(hist.ins) :
           /\ hist.extS[hist.ins[i][2]] = "hit"
           /\ hist.callsD[hist.ins[i][1]] = 1
           /\ hist.evD[hist.ins[i][1]] = 1
    /\ tasks = {}

(***************************************************************************)
(* C6.  Every delete call the bridge issues for a message id is preceded,  *)
(* with no suspension point in between, by the insertion of the id into    *)
(* the platform's marker set: in the step that issues the call the id is   *)
(* in the set.                                                             *)
(***************************************************************************)
C6_MarkedAtEveryDeleteCall ==
    [][ /\ \A d \in DIds : CallD(d) => d \in discord_deleting'
        /\ \A s \in SIds : CallS(s) => s \in stoat_deleting' ]_vars

(***************************************************************************)
(* C7.  After an id is marked on a platform, the first delete event for    *)
(* it on that platform is suppressed and removes the marker; a second      *)
(* delete event for the same id is not suppressed: it is handled as an     *)
(* external delete, which for a cached pair marks the peer and starts the  *)
(* delete call.                                                            *)
(***************************************************************************)
C7_MarkerSuppressesOnce ==
    [][ /\ \A s \in SIds : EventS(s) =>
               /\ s \notin stoat_deleting'
               /\ IF s \in stoat_deleting
                  THEN /\ tasks' = tasks
                       /\ hist'.callsD = hist.callsD
                       /\ discord_deleting' = discord_deleting
                  ELSE CacheGet(s2d, s) # NoId =>
                           /\ CacheGet(s2d, s) \in discord_deleting'
                           /\ \E t \in tasks' \ tasks :
                                  /\ t.h = "s_del" /\ t.id = s
                                  /\ t.peer = CacheGet(s2d, s)
        /\ \A d \in DIds : EventD(d) =>
               /\ d \notin discord_deleting'
               /\ IF d \in discord_deleting
                  THEN /\ tasks' = tasks
                       /\ hist'.callsS = hist.callsS
                       /\ stoat_deleting' = stoat_deleting
                  ELSE CacheGet(d2s, d) # NoId =>
                           /\ CacheGet(d2s, d) \in stoat_deleting'
                           /\ CallS(CacheGet(d2s, d))
                           /\ \E t \in tasks' \ tasks :
                                  /\ t.h = "d_del" /\ t.id = d
                                  /\ t.peer = CacheGet(d2s, d) ]_vars

\* Stoat message s was never deleted by a user: its first delete event was
\* the echo of the bridge's own call, its second one is being propagated
C7_SecondEventPropagated ==
    \E s \in SIds :
        /\ hist.extS[s] = "no"
        /\ hist.evS[s] = 2
        /\ \E t \in tasks : t.h = "s_del" /\ t.id = s /\ t.k = 2

(***************************************************************************)
(* C8.  A marker, once inserted, is removed only by the next delete event  *)
(* for that id on that platform, whether the bridge's delete call succeeds *)
(* or fails.                                                               *)
(***************************************************************************)
C8_RemovedOnlyByEvent ==
    [][ /\ \A s \in SIds : (s \in stoat_deleting /\ s \notin stoat_deleting') => EventS(s)
        /\ \A d \in DIds : (d \in discord_deleting /\ d \notin discord_deleting') =>
               EventD(d) ]_vars

\* C8 as amended: a marker is removed by the next delete event for the id,
\* or by the handler that inserted it when its delete call (or the channel
\* fetch before it) fails, and the handler then always removes it; the marker
\* stays when the call succeeds.
C8_RemovedByEventOrFailure ==
    [][ /\ \A s \in SIds :
               /\ (s \in stoat_deleting /\ s \notin stoat_deleting') =>
                      EventS(s) \/ FailedS(s)
               /\ FailedS(s) => s \notin stoat_deleting'
               /\ SucceededS(s) => (s \in stoat_deleting' <=> s \in stoat_deleting)
        /\ \A d \in DIds :
               /\ (d \in discord_deleting /\ d \notin discord_deleting') =>
                      EventD(d) \/ FailedD(d)
               /\ FailedD(d) => d \notin discord_deleting'
               /\ SucceededD(d) => (d \in discord_deleting' <=> d \in discord_deleting) ]_vars

\* a delete call for Stoat message s was issued and is over, no delete event
\* for s was handled, and the marker is gone
C8_MarkerGoneWithoutEvent ==
    \E s \in SIds :
        /\ hist.callsS[s] >= 1
        /\ hist.evS[s] = 0
        /\ s \notin stoat_deleting
        /\ \A t \in tasks : ~(t.h = "d_del" /\ t.peer = s)

(***************************************************************************)
(* C9.  For any interleaving of message handlers, a (platform, user) is    *)
(* inserted into the notification ledger at most once and at most one      *)
(* welcome-DM task is started for the user, also when two first messages   *)
(* of the same new user are handled concurrently.                          *)
(***************************************************************************)
Occurrences(q, e) == Cardinality({ i \in 1 .. Len(q) : q[i] = e })

C9_NotifiedAtMostOnce ==
    \A p \in Platforms, u \in Users :
        /\ hist.dm[p][u] <= 1
        /\ Occurrences(notified_users[p], u) <= 1
        /\ Occurrences(notified_file[p], u) <= 1
        /\ hist.dm[p][u] = Occurrences(notified_users[p], u)

\* two Discord messages of u1, the only user seen on Discord, are being
\* handled at once
C9_TwoFirstMessagesInFlight ==
    /\ Cardinality({ t \in tasks : t.h = "d_msg" /\ t.pc = "clean" }) = 2
    /\ notified_users["discord"] = << "u1" >>
    /\ hist.dm["discord"]["u1"] = 1
    /\ hist.dm["discord"]["u2"] = 0

(***************************************************************************)
(* C10.  An inbound message is dropped, with no send and no change to the  *)
(* correlation cache, whenever it was authored by the bridge itself, or    *)
(* its channel is not in the channel-pair mapping, or its sanitized        *)
(* content is empty and it has no attachments; every other message whose   *)
(* peer channel handle is ready reaches the send step.                     *)
(***************************************************************************)
\* the message the step decided on is waiting in ch.send / webhook.send
SendStarted ==
    \E t \in tasks' :
        /\ t.pc = "send"
        /\ t.id = hist'.last.id
        /\ t.h = (IF hist'.last.p = "discord" THEN "d_msg" ELSE "s_msg")

Dropped == ~SendStarted /\ d2s' = d2s /\ s2d' = s2d

C10_DropsOnEmptyContentNoAttachments ==
    [][ LET m == hist'.last
            mustDrop ==
                \/ m.why \in { "own", "unmapped" }
                \/ /\ m.why = "decided"
                   /\ CleanContent(m.raw) = << >>
                   /\ m.atts = << >>
        IN  /\ (m.why # "none" /\ mustDrop) => Dropped
            /\ (m.why = "decided" /\ ~mustDrop) => SendStarted ]_vars

\* C10 as amended: the third drop condition is that nothing is left to send:
\* the sanitized content is empty or white space, no quote of a reply target
\* was prepended, and no attachment gave a link (Discord -> Stoat: the
\* attachment's URL; Stoat -> Discord: a downloaded file, or the URL of one
\* whose download failed).
NothingToSend(m) ==
    /\ IsBlank(CleanContent(m.raw))
    /\ ~m.quoted
    /\ \A i \in 1 .. Len(m.atts) : m.atts[i] = "nourl"

C10_DropsWhenNothingToSend ==
    [][ LET m == hist'.last
            mustDrop ==
                \/ m.why \in { "own", "unmapped" }
                \/ m.why = "decided" /\ NothingToSend(m)
        IN  /\ (m.why # "none" /\ mustDrop) => Dropped
            /\ (m.why = "decided" /\ ~mustDrop) => SendStarted ]_vars

\* a message with empty content and no attachments, replying to a message
\* that could be fetched, is on its way to the peer platform as a quote
C10_QuoteOnlyMessageSent ==
    /\ hist.last.why = "decided"
    /\ CleanContent(hist.last.raw) = << >>
    /\ hist.last.atts = << >>
    /\ hist.last.quoted
    /\ \E t \in tasks : t.pc = "send" /\ t.id = hist.last.id

(***************************************************************************)
(* The message handlers with every reply target: cached or not, fetched    *)
(* or not, short or longer than the quote line shows.                      *)
(***************************************************************************)
NextReply ==
    \/ Setup
    \/ \E c \in DOMAIN DISCORD_TO_STOAT : DiscordOnMessage("u1", c, TRUE)
    \/ \E t \in tasks, r \in { NoId } \cup DIds, f \in { NoMsg } \cup RefMsgs :
          DiscordAfterClean(t, << "x" >>, r, f, << >>)
    \/ \E t \in tasks, r \in { "ok", "noid", "error" } : DiscordSendDone(t, r)
    \/ \E c \in DOMAIN STOAT_TO_DISCORD : StoatOnMessageCreate("u1", c, TRUE)
    \/ \E t \in tasks, r \in { NoId } \cup SIds, f \in { NoMsg } \cup RefMsgs :
          StoatAfterClean(t, << "x" >>, r, f, << >>)
    \/ \E t \in tasks, ok \in BOOLEAN : StoatSendDone(t, ok)

SpecReply == Init /\ [][NextReply]_vars

\* the peer the cache holds for the reply target of the message just decided
CachedPeer(m) ==
    IF m.p = "discord" THEN CacheGet(d2s, m.reply) ELSE CacheGet(s2d, m.reply)

QuoteCut(m) ==
    /\ m.quote.author <= QUOTE_AUTHOR_MAX
    /\ m.quote.snippet <= QUOTE_SNIPPET_MAX

(***************************************************************************)
(* C11.  In both directions, a forwarded message that replies to a source  *)
(* message whose id is in the correlation cache uses the native reply      *)
(* linkage to the cached peer and gets no quote line; only when the id is  *)
(* not cached is a quote line (author cut to 50 characters, snippet to 80) *)
(* prepended.                                                              *)
(***************************************************************************)
C11_NativeReplyWhenCached ==
    [][ LET m == hist'.last
        IN  (m.why = "decided" /\ m.reply # NoId) =>
                /\ CachedPeer(m) # NoId => (m.native = CachedPeer(m) /\ ~m.quoted)
                /\ m.quoted => (CachedPeer(m) = NoId /\ QuoteCut(m)) ]_vars

\* C11 as amended: the above holds Discord -> Stoat, where the quote line is
\* prepended when the target is not cached and could be fetched.  Stoat ->
\* Discord never uses a native reply and never consults the cache: the quote
\* line is prepended whenever the target could be fetched.
C11_NativeReplyDiscordQuoteStoat ==
    [][ LET m == hist'.last
        IN  (m.why = "decided" /\ m.reply # NoId) =>
                /\ QuoteCut(m)
                /\ m.p = "discord" =>
                       /\ m.native = CachedPeer(m)
                       /\ m.quoted <=> (CachedPeer(m) = NoId /\ m.found)
                /\ m.p = "stoat" =>
                       /\ m.native = NoId
                       /\ m.quoted <=> m.found ]_vars

\* a Stoat message replying to a Stoat message that is in the cache has just
\* been given a quote line, its author cut to the limit
C11_CachedStoatReplyQuoted ==
    /\ hist.last.why = "decided"
    /\ hist.last.p = "stoat"
    /\ hist.last.reply # NoId
    /\ CacheGet(s2d, hist.last.reply) # NoId
    /\ hist.last.quoted
    /\ hist.last.quote.author = QUOTE_AUTHOR_MAX

(***************************************************************************)
(* The Stoat -> Discord handler with every download: one attachment that   *)
(* meets any status, header, body length and error, alone or followed by   *)
(* a second attachment.                                                    *)
(***************************************************************************)
Downloads(url) ==
    { Download(url, "connect", 200, CLAbsent, 0),
      Download(url, "none", 404, CLAbsent, 0),
      Download("", "none", 200, CLAbsent, 0) }
    \cup { Download(url, e, 200, cl, sz) :
             e \in { "none", "read" },
             cl \in { CLAbsent, CLEmpty, CLBad, CLNum(MAX_FILE_SIZE),
                      CLNum(MAX_FILE_SIZE + 1), CLNum(30 * 1024 * 1024) },
             sz \in { 1, MAX_FILE_SIZE, MAX_FILE_SIZE + 1 } }

SecondDownloads ==
    { Download("U2", "none", 200, CLAbsent, MAX_FILE_SIZE),
      Download("U2", "none", 200, CLAbsent, MAX_FILE_SIZE + 1),
      Download("U2", "none", 404, CLAbsent, 0) }

FetchAttLists ==
    { << a >> : a \in Downloads("U1") }
        \cup { << a, b >> : a \in Downloads("U1"), b \in SecondDownloads }

NextFetch ==
    \/ Setup
    \/ \E c \in DOMAIN STOAT_TO_DISCORD : StoatOnMessageCreate("u1", c, TRUE)
    \/ \E t \in tasks, raw \in { << >>, << "x" >>, << "L" >> }, a \in FetchAttLists :
          StoatAfterClean(t, raw, NoId, NoMsg, a)
    \/ \E t \in tasks, ok \in BOOLEAN : StoatSendDone(t, ok)

SpecFetch == Init /\ [][NextFetch]_vars

\* the download got a response with status 200
Answered(a) == a.url # "" /\ a.err # "connect" /\ a.status = 200
\* the Content-Length header of the response passes the check before the read
HeaderPasses(a) ==
    a.cl.kind \in { "absent", "empty" } \/ (a.cl.kind = "num" /\ a.cl.n <= MAX_FILE_SIZE)

(***************************************************************************)
(* C12.  fetch_bytes rejects a download whose Content-Length exceeds       *)
(* MAX_FILE_SIZE before reading the body, rejects one whose body exceeds   *)
(* MAX_FILE_SIZE after reading it, and accepts a download of exactly       *)
(* MAX_FILE_SIZE bytes; no attachment larger than MAX_FILE_SIZE is handed  *)
(* to the Discord upload.                                                  *)
(***************************************************************************)
C12_SizeCapBeforeAndAfterRead ==
    [][ LET m == hist'.last
        IN  /\ \A i \in 1 .. Len(m.down) :
                   LET a == m.down[i]
                       r == m.fetch[i]
                   IN  /\ (Answered(a) /\ a.cl.kind = "num" /\ a.cl.n > MAX_FILE_SIZE) =>
                              (~r.read /\ r.data = NoData)
                       /\ (Answered(a) /\ HeaderPasses(a) /\ a.size > MAX_FILE_SIZE) =>
                              (r.read /\ r.data = NoData)
                       /\ (Answered(a) /\ HeaderPasses(a) /\ a.err = "none"
                             /\ a.size = MAX_FILE_SIZE) =>
                              (r.data = MAX_FILE_SIZE /\ MAX_FILE_SIZE \in SeqElems(m.files))
            /\ \A j \in 1 .. Len(m.files) : m.files[j] <= MAX_FILE_SIZE ]_vars

\* a message with a file of exactly MAX_FILE_SIZE bytes is on its way to
\* Discord, its other attachment having been refused by its header
C12_FileOfExactlyMaxSizeSent ==
    /\ hist.last.why = "decided"
    /\ hist.last.files = << MAX_FILE_SIZE >>
    /\ Len(hist.last.down) = 2
    /\ hist.last.down[1].cl = CLNum(MAX_FILE_SIZE + 1)
    /\ ~hist.last.fetch[1].read
    /\ \E t \in tasks : t.pc = "send" /\ t.id = hist.last.id

(***************************************************************************)
(* C13.  Whenever the relay of an attachment fails (oversize header,       *)
(* oversize body, non-200 status or transport error), the message sent to  *)
(* Discord contains the attachment's source URL as plain text: the         *)
(* message reaches the send and its content holds the URL.                 *)
(***************************************************************************)
C13_FailedAttachmentLinked ==
    [][ LET m == hist'.last
        IN  (m.why = "decided" /\ m.p = "stoat") =>
                \A i \in 1 .. Len(m.atts) :
                    m.atts[i] = "fail" =>
                        (SendStarted /\ m.down[i].url \in SeqElems(m.sent)) ]_vars

(***************************************************************************)
(* C14.  Every attachment buffer created during a Stoat -> Discord forward *)
(* is passed to exactly one webhook.send call and is closed by the time    *)
(* the handler returns, whether the send succeeded or raised: the buffers  *)
(* that are open are those of the handlers suspended in webhook.send.      *)
(***************************************************************************)
RECURSIVE BuffersHeld(_)
BuffersHeld(ts) ==
    IF ts = {} THEN 0
    ELSE LET t == CHOOSE x \in ts : TRUE
         IN  Len(t.files) + BuffersHeld(ts \ { t })

C14_BuffersSentOnceAndClosed ==
    /\ hist.handed = hist.opened
    /\ hist.opened - hist.closed = BuffersHeld(tasks)
    /\ \A t \in tasks : t.files # << >> => (t.h = "s_msg" /\ t.pc = "send")

\* a send that carried a buffer has just raised, and no buffer is open
C14_ClosedAfterFailedSend ==
    /\ hist.last.why = "sendfail"
    /\ hist.last.p = "stoat"
    /\ hist.opened >= 1
    /\ hist.closed = hist.opened
    /\ tasks = {}

(***************************************************************************)
(* C15.  For two messages received in that order in the same source        *)
(* channel, the send of the first is issued and completes before the send  *)
(* of the second starts: when a handler issues its send, no handler of an  *)
(* earlier message of that channel is still before or in its send.         *)
(***************************************************************************)
C15_SendsInOrderOfReceipt ==
    [][ LET m == hist'.last
        IN  (m.why = "decided" /\ SendStarted) =>
                \A t1, t2 \in tasks' :
                    (t2.id = m.id /\ t2.pc = "send" /\ t1.h = t2.h /\ t1.ch = t2.ch
                       /\ t2.h = (IF m.p = "discord" THEN "d_msg" ELSE "s_msg"))
                        => t1.id >= t2.id ]_vars

(***************************************************************************)
(* Start-up with every configuration: the module body (lines 46-66) and    *)
(* the check of main() before the clients are started.                     *)
(***************************************************************************)
\* if len(DISCORD_CHANNEL_IDS) != len(STOAT_CHANNEL_IDS): raise RuntimeError
LengthsUnchecked(dl, sl) == TRUE
LengthsMatch(dl, sl) == Len(dl) = Len(sl)

\* the module body: parse the lists, compare their lengths, build the maps
LoadConfig ==
    /\ startup.phase = "env"
    /\ startup' =
           IF ~startup.numeric \/ ~LengthsMatch(DISCORD_CHANNEL_IDS, STOAT_CHANNEL_IDS)
           THEN [ startup EXCEPT !.phase = "rejected" ]
           ELSE [ startup EXCEPT
                    !.phase = "loaded",
                    !.DISCORD_TO_STOAT = ZipD2S(DISCORD_CHANNEL_IDS, STOAT_CHANNEL_IDS),
                    !.STOAT_TO_DISCORD = ZipS2D(DISCORD_CHANNEL_IDS, STOAT_CHANNEL_IDS) ]
    /\ UNCHANGED << d2s, s2d, webhook_discord_ids, discord_deleting, stoat_deleting,
                    notified_users, notified_file, discord_webhooks, stoat_channels,
                    http_session, tasks, plat, hist >>

\* main(): "if not all([tokens, lists]): raise RuntimeError", then the clients
\* are started
Main ==
    /\ startup.phase = "loaded"
    /\ startup' =
           IF ~startup.tokens \/ DISCORD_CHANNEL_IDS = << >> \/ STOAT_CHANNEL_IDS = << >>
           THEN [ startup EXCEPT !.phase = "rejected" ]
           ELSE [ startup EXCEPT !.phase = "running" ]
    /\ UNCHANGED << d2s, s2d, webhook_discord_ids, discord_deleting, stoat_deleting,
                    notified_users, notified_file, discord_webhooks, stoat_channels,
                    http_session, tasks, plat, hist >>

\* the lists of at most two ids the environment may hold
ListsOver(ids) ==
    { << >> } \cup { << a >> : a \in ids } \cup { << a, b >> : a \in ids, b \in ids }

EnvConfigs ==
    [ phase : { "env" }, tokens : BOOLEAN, numeric : BOOLEAN,
      discord_ids : ListsOver({ "dc1", "dc2" }),
      stoat_ids : ListsOver({ "sc1", "sc2" }),
      DISCORD_TO_STOAT : { << >> }, STOAT_TO_DISCORD : { << >> } ]

InitStartup == InitBridge /\ startup \in EnvConfigs

NextStartup ==
    \/ LoadConfig
    \/ Main
    \/ Setup

SpecStartup == InitStartup /\ [][NextStartup]_vars

(***************************************************************************)
(* C16.  For every pair of channel lists that passes the start-up checks,  *)
(* DISCORD_TO_STOAT and STOAT_TO_DISCORD are mutually inverse bijections:  *)
(* every configured pair maps both ways, and each map undoes the other.    *)
(***************************************************************************)
C16_ChannelMapsInverse ==
    startup.phase = "running" =>
        /\ \A i \in 1 .. PAIR_COUNT :
               /\ DISCORD_CHANNEL_IDS[i] \in DOMAIN DISCORD_TO_STOAT
               /\ STOAT_CHANNEL_IDS[i] \in DOMAIN STOAT_TO_DISCORD
        /\ \A d \in DOMAIN DISCORD_TO_STOAT :
               /\ DISCORD_TO_STOAT[d] \in DOMAIN STOAT_TO_DISCORD
               /\ STOAT_TO_DISCORD[DISCORD_TO_STOAT[d]] = d
        /\ \A s \in DOMAIN STOAT_TO_DISCORD :
               /\ STOAT_TO_DISCORD[s] \in DOMAIN DISCORD_TO_STOAT
               /\ DISCORD_TO_STOAT[STOAT_TO_DISCORD[s]] = s

(***************************************************************************)
(* C17.  Start-up is rejected, before any client is started, whenever the  *)
(* two channel lists differ in length; the bridge only runs with lists of  *)
(* equal length.                                                           *)
(***************************************************************************)
C17_MismatchedListsNeverRun ==
    /\ Len(DISCORD_CHANNEL_IDS) # Len(STOAT_CHANNEL_IDS) =>
           /\ startup.phase \in { "env", "rejected" }
           /\ ~http_session
           /\ stoat_channels = {}
           /\ discord_webhooks = {}
    /\ startup.phase \in { "loaded", "running" } =>
           Len(DISCORD_CHANNEL_IDS) = Len(STOAT_CHANNEL_IDS)

\* a configuration with tokens and numeric ids was rejected for its lengths
C17_RejectedForLength ==
    /\ startup.phase = "rejected"
    /\ startup.tokens
    /\ startup.numeric
    /\ Len(DISCORD_CHANNEL_IDS) = 1
    /\ Len(STOAT_CHANNEL_IDS) = 2

(***************************************************************************)
(* C18.  A forwarded user message that is deleted on its source platform   *)
(* gets a delete call for its mirror, also when the delete event arrives   *)
(* while the send is in flight.  Once every handler has returned nothing   *)
(* more happens for a deleted message, so by then the call has been        *)
(* issued: for every recorded pair whose source message was deleted by a   *)
(* user, a delete call for the mirror was made.                            *)
(***************************************************************************)
C18_DeleteReachesMirror ==
    tasks = {} =>
        \A i \in 1 .. Len(hist.ins) :
            LET d == hist.ins[i][1]
                s == hist.ins[i][2]
            IN  /\ (s \in plat.sBridge /\ hist.extD[d] # "no") => hist.callsS[s] >= 1
                /\ (d \in plat.dBridge /\ hist.extS[s] # "no") => hist.callsD[d] >= 1

(***************************************************************************)
(* C19.  A message the bridge itself sent is never forwarded back when the *)
(* platform reports it: no handler works on a message of the bridge, and   *)
(* the number of sends issued is at most the number of user-authored       *)
(* messages reported.                                                      *)
(***************************************************************************)
\* the user-authored messages the platforms have reported so far
UserInbound ==
    Cardinality(hist.seenD \ plat.dBridge) + Cardinality(hist.seenS \ plat.sBridge)

C19_OwnMessagesNotForwarded ==
    /\ hist.sends <= UserInbound
    /\ \A t \in tasks :
           /\ t.h = "d_msg" => t.id \notin plat.dBridge
           /\ t.h = "s_msg" => t.id \notin plat.sBridge

\* both platforms have reported a message of the bridge as inbound
C19_OwnMessagesReported ==
    /\ hist.last.why = "own"
    /\ plat.dBridge # {} /\ plat.dBridge \subseteq hist.seenD
    /\ plat.sBridge # {} /\ plat.sBridge \subseteq hist.seenS
    /\ hist.sends = 2
    /\ tasks = {}

(***************************************************************************)
(* C20.  A correlation pair is recorded only by the step in which a send   *)
(* to the peer platform has returned successfully.  When a send fails the  *)
(* correlation cache and _webhook_discord_ids are unchanged, no send is    *)
(* issued again for the message, and its handler has ended.                *)
(***************************************************************************)
C20_PairOnlyAfterSuccessfulSend ==
    [][ LET m == hist'.last
        IN  /\ (d2s' # d2s \/ s2d' # s2d
                  \/ ~(webhook_discord_ids' \subseteq webhook_discord_ids)
                  \/ hist'.ins # hist.ins)
                => /\ m.why = "sent"
                   /\ \E t \in tasks \ tasks' :
                          /\ t.pc = "send" /\ t.id = m.id
                          /\ t.h = (IF m.p = "discord" THEN "d_msg" ELSE "s_msg")
            /\ m.why = "sendfail"
                => /\ d2s' = d2s /\ s2d' = s2d
                   /\ webhook_discord_ids' = webhook_discord_ids
                   /\ hist'.ins = hist.ins
                   /\ hist'.sends = hist.sends
                   /\ tasks' \subseteq tasks
                   /\ Cardinality(tasks') = Cardinality(tasks) - 1
                   /\ ~\E t \in tasks' :
                          /\ t.id = m.id
                          /\ t.h = (IF m.p = "discord" THEN "d_msg" ELSE "s_msg") ]_vars

\* a send has failed in each direction and nothing is recorded
C20_BothSendsFailed ==
    /\ hist.last.why = "sendfail"
    /\ hist.sends = 2
    /\ plat.sBridge = {} /\ plat.dBridge = {}
    /\ hist.seenD # {} /\ hist.seenS # {}
    /\ d2s = << >> /\ s2d = << >> /\ webhook_discord_ids = {}
    /\ tasks = {}

(***************************************************************************)
(* C21.  A delete event for a message id that has no marker and no entry   *)
(* in the correlation cache is ignored: the step issues no delete call and *)
(* leaves the cache, both marker sets and _webhook_discord_ids unchanged.  *)
(***************************************************************************)
\* the step starts no handler, issues no call and changes no bridge state
Ignored ==
    /\ tasks' = tasks
    /\ hist'.callsD = hist.callsD
    /\ hist'.callsS = hist.callsS
    /\ UNCHANGED << d2s, s2d, discord_deleting, stoat_deleting, webhook_discord_ids >>

C21_UnlinkedDeleteIgnored ==
    [][ /\ \A d \in DIds :
               (EventD(d) /\ d \notin discord_deleting /\ d \notin CacheKeys(d2s))
                   => Ignored
        /\ \A s \in SIds :
               (EventS(s) /\ s \notin stoat_deleting /\ s \notin CacheKeys(s2d))
                   => Ignored ]_vars

\* both platforms have reported the deletion of a message that was not linked
\* while another pair was in the cache
C21_UnlinkedDeletesSeen ==
    /\ \E d \in DIds : hist.extD[d] = "miss" /\ d \notin CacheKeys(d2s)
    /\ \E s \in SIds : hist.extS[s] = "miss" /\ s \notin CacheKeys(s2d)
    /\ d2s # << >>

(***************************************************************************)
(* C22.  When a delete call of the bridge reports that the target message  *)
(* no longer exists, the handler ends and the self-delete marker of the    *)
(* target id is not in its marker set afterwards.                          *)
(***************************************************************************)
C22_GoneTargetClearsMarker ==
    [][ LET m == hist'.last
        IN  m.why = "delgone" =>
                /\ tasks' \subseteq tasks
                /\ Cardinality(tasks') = Cardinality(tasks) - 1
                /\ m.p = "discord" => m.id \notin discord_deleting'
                /\ m.p = "stoat" => m.id \notin stoat_deleting' ]_vars

\* a delete call for a Discord message has found the message gone
C22_DiscordTargetGone ==
    /\ hist.last.why = "delgone"
    /\ hist.last.p = "discord"
    /\ hist.callsD[hist.last.id] >= 1
    /\ hist.last.id \notin plat.dAlive
    /\ hist.last.id \notin discord_deleting

(***************************************************************************)
(* C23.  When a reply target is not linked and fetching the replied-to     *)
(* message fails, the message is still forwarded to the peer channel, with *)
(* its own content and without a quote line.                               *)
(***************************************************************************)
\* the handler has just decided on a reply whose target is not in the cache
\* and could not be fetched
ReplyFetchFailed(m) ==
    /\ m.why = "decided"
    /\ m.reply # NoId
    /\ ~m.hit
    /\ ~m.found

C23_ForwardedWithoutQuote ==
    [][ LET m == hist'.last
        IN  ReplyFetchFailed(m) =>
                /\ SendStarted
                /\ ~m.quoted
                /\ m.quote = NoQuote ]_vars

\* C23 as amended: the message is handled as it would be without the reply
\* reference.  It gets no quote line, what is sent is its own cleaned content
\* with the attachment links, cut to the length limit, and it is forwarded
\* unless that leaves nothing to send.
C23_HandledAsWithoutReply ==
    [][ LET m == hist'.last
        IN  ReplyFetchFailed(m) =>
                /\ ~m.quoted
                /\ m.quote = NoQuote
                /\ m.p = "discord" =>
                       LET content == DiscordOutgoing(m.raw, FALSE, m.atts)
                       IN  /\ m.sent = Truncate(content, CONTENT_MAX)
                           /\ SendStarted <=> ~DiscordDrops(content)
                /\ m.p = "stoat" =>
                       LET content == StoatOutgoing(m.raw, FALSE, m.down)
                       IN  /\ m.sent = SentContent(content)
                           /\ SendStarted <=> ~StoatDrops(content, m.files) ]_vars

\* a Stoat message with text, replying to a message that could not be fetched,
\* is on its way to Discord without a quote line
C23_ReplySentAfterFailedFetch ==
    /\ ReplyFetchFailed(hist.last)
    /\ hist.last.p = "stoat"
    /\ hist.last.sent = << "x" >>
    /\ \E t \in tasks : t.h = "s_msg" /\ t.pc = "send" /\ t.id = hist.last.id

(***************************************************************************)
(* C24.  At every point of a single Stoat-to-Discord forward, the total    *)
(* number of attachment bytes the forward holds in memory is at most       *)
(* MAX_FILE_SIZE, whatever the number of attachments.                      *)
(***************************************************************************)
RECURSIVE BytesHeld(_)
\* the bytes in the buffers of discord_files
BytesHeld(files) ==
    IF files = << >> THEN 0 ELSE Head(files) + BytesHeld(Tail(files))

C24_ForwardHoldsAtMostMaxFileSize ==
    \A t \in tasks : t.h = "s_msg" => BytesHeld(t.files) <= MAX_FILE_SIZE

(***************************************************************************)
(* clean_discord_content and clean_stoat_content, pass by pass.            *)
(*                                                                         *)
(* A text is a sequence of pieces: "x" is plain text, the others are the   *)
(* substrings the regular expressions match (one id of each kind) and the  *)
(* texts the passes insert.  A display name, role name or emoji name is    *)
(* itself a text and may consist of a piece that a regular expression      *)
(* matches.                                                                *)
(***************************************************************************)
MaxContentLen == 2

DiscordPieces == { "x", "<@1>", "<#1>", "<@&1>", "<:e:1>" }
StoatPieces == { "x", "<@U>", ":E:" }

\* the texts of at most MaxContentLen pieces
TextsOver(pieces) == UNION { [ 1 .. n -> pieces ] : n \in 0 .. MaxContentLen }

\* member.display_name / role.name on Discord
DiscordNames == { << "n" >>, << "<#1>" >>, << "<@&1>" >>, << "<:e:1>" >> }
\* display_name of a Stoat user. emoji name of a Stoat emoji
StoatNames == { << "n" >>, << ":E:" >>, << "<@U>" >> }

RECURSIVE Substitute(_, _, _)
\* every match of one regular expression in text replaced by repl, in one pass
Substitute(text, piece, repl) ==
    IF text = << >> THEN << >>
    ELSE (IF Head(text) = piece THEN repl ELSE << Head(text) >>)
             \o Substitute(Tail(text), piece, repl)

\* the passes of clean_discord_content in the order of the code: users,
\* channels, roles, emoji, each over the result of the pass before
clean_discord_content(content, display_name, role_name) ==
    LET users == Substitute(content, "<@1>", << "@" >> \o display_name)
        channels == Substitute(users, "<#1>", << "#general" >>)
        roles == Substitute(channels, "<@&1>", << "@" >> \o role_name)
    IN  Substitute(roles, "<:e:1>", << ":e:" >>)

\* the passes of clean_stoat_content: users, then custom emoji over the result
clean_stoat_content(content, display_name, emoji_name) ==
    LET users == Substitute(content, "<@U>", << "@" >> \o display_name)
    IN  Substitute(users, ":E:", << ":" >> \o emoji_name \o << ":" >>)

\* one call of clean_discord_content / clean_stoat_content
CleanDiscordCall(content, display_name, role_name) ==
    /\ startup.phase = "running"
    /\ hist' = [ H0 EXCEPT !.last =
                   [ NoLast EXCEPT !.why = "cleaned", !.p = "discord", !.raw = content,
                                   !.env = << display_name, role_name >>,
                                   !.sent = clean_discord_content(content, display_name,
                                                                  role_name) ] ]
    /\ UNCHANGED << startup, d2s, s2d, webhook_discord_ids, discord_deleting,
                    stoat_deleting, notified_users, notified_file, discord_webhooks,
                    stoat_channels, http_session, tasks, plat >>

CleanStoatCall(content, display_name, emoji_name) ==
    /\ startup.phase = "running"
    /\ hist' = [ H0 EXCEPT !.last =
                   [ NoLast EXCEPT !.why = "cleaned", !.p = "stoat", !.raw = content,
                                   !.env = << display_name, emoji_name >>,
                                   !.sent = clean_stoat_content(content, display_name,
                                                                emoji_name) ] ]
    /\ UNCHANGED << startup, d2s, s2d, webhook_discord_ids, discord_deleting,
                    stoat_deleting, notified_users, notified_file, discord_webhooks,
                    stoat_channels, http_session, tasks, plat >>

NextClean ==
    \/ \E c \in TextsOver(DiscordPieces), dn \in DiscordNames, rn \in DiscordNames :
          CleanDiscordCall(c, dn, rn)
    \/ \E c \in TextsOver(StoatPieces), dn \in StoatNames, en \in StoatNames :
          CleanStoatCall(c, dn, en)

SpecClean == Init /\ [][NextClean]_vars

(***************************************************************************)
(* C25.  The output of clean_discord_content and of clean_stoat_content is *)
(* the input with every mention or emoji token of the input replaced by    *)
(* its resolved text and everything else left as it is: inserted text is   *)
(* not rewritten by a later pass.                                          *)
(***************************************************************************)
\* the resolved text of one piece of the input
Resolved(p, piece, env) ==
    IF p = "discord"
    THEN CASE piece = "<@1>" -> << "@" >> \o env[1]
           [] piece = "<#1>" -> << "#general" >>
           [] piece = "<@&1>" -> << "@" >> \o env[2]
           [] piece = "<:e:1>" -> << ":e:" >>
           [] OTHER -> << piece >>
    ELSE CASE piece = "<@U>" -> << "@" >> \o env[1]
           [] piece = ":E:" -> << ":" >> \o env[2] \o << ":" >>
           [] OTHER -> << piece >>

RECURSIVE EachResolved(_, _, _)
EachResolved(p, text, env) ==
    IF text = << >> THEN << >>
    ELSE Resolved(p, Head(text), env) \o EachResolved(p, Tail(text), env)

C25_OnlyInputTokensReplaced ==
    hist.last.why = "cleaned" =>
        hist.last.sent = EachResolved(hist.last.p, hist.last.raw, hist.last.env)

(***************************************************************************)
(* C26.  When a Stoat delete event is propagated to Discord, the mirrored  *)
(* Discord message is deleted through the webhook if and only if it was    *)
(* sent by the webhook of the bridge, and through the channel API of the   *)
(* bot if and only if a Discord user wrote it, for every delete event of   *)
(* the message, also a repeated one: every handler of a Stoat delete event *)
(* is on the route that fits the origin of its target.                     *)
(***************************************************************************)
C26_DeleteRouteFitsOrigin ==
    \A t \in tasks :
        t.h = "s_del" =>
            /\ t.pc = "wdel" <=> t.peer \in plat.dBridge
            /\ t.pc \in { "udel", "fetchch" } <=> t.peer \notin plat.dBridge

(***************************************************************************)
(* C27.  In every reachable state every Discord id in _webhook_discord_ids *)
(* is a key of _d2s, so the set holds at most MSG_CACHE_SIZE ids.          *)
(***************************************************************************)
C27_WebhookIdsAreCached ==
    /\ webhook_discord_ids \subseteq CacheKeys(d2s)
    /\ Cardinality(webhook_discord_ids) <= MSG_CACHE_SIZE

(***************************************************************************)
(* C28.  In every reachable state an id is in _discord_deleting or         *)
(* _stoat_deleting only if a delete call of the bridge for that id is in   *)
(* flight, or such a call has succeeded and the delete event it causes has *)
(* not been handled yet; so both sets are empty once every call has        *)
(* returned and every such event was delivered.                            *)
(***************************************************************************)
\* a handler that marked the id is before or in its delete call
DeletingD(d) == \E t \in tasks : t.h = "s_del" /\ t.peer = d
DeletingS(s) == \E t \in tasks : t.h = "d_del" /\ t.peer = s

==========================================================================
